---- MODULE Spec2Model ----
(***************************************************************************)
(* memory-alpha: the store_memory and query_memory tool handlers of        *)
(* src/memory_alpha/server.py, run by server processes that share one      *)
(* vector store (a cluster collection and a chunk collection).             *)
(*                                                                         *)
(* Conventions of the model                                                *)
(*  - A Python str is a TLA+ string.  TLC cannot index into a string, so   *)
(*    the characters of the texts the inputs can produce are kept in the   *)
(*    table TextChars, and len(text.split()) is computed on them.          *)
(*  - A float vector is a sequence of exact rationals <<num, den>>; the    *)
(*    list comprehension of the centroid update is computed in exact       *)
(*    arithmetic (float rounding is not modelled).                         *)
(*  - importance moves in steps of 0.5 and is kept in halves: 2 is 1.0.    *)
(*  - A cosine score is kept as its signed square, an exact rational.      *)
(*  - An optional value that is None or not given is an absent field.      *)
(***************************************************************************)
EXTENDS Integers, Sequences, FiniteSets, TLC

-----------------------------------------------------------------------------
(* Bounds of the model *)

\* calls of store_memory and query_memory started in one behaviour
MaxCalls == 3

\* chunks sent in one behaviour, over all store_memory calls
MaxChunks == 3

-----------------------------------------------------------------------------
(* settings.py *)

DEFAULT_CONTEXT_LEVELS ==
    <<"function_signature", "file_section", "file", "module", "project">>

default_max_tokens == 1000

default_k == 24

cluster_collection == "dev_clusters"

chunk_collection == "dev_chunks"

-----------------------------------------------------------------------------
(* Texts: contexts and prompts the callers send *)

RECURSIVE Rep(_, _)
\* the characters of n copies of the one-letter word w, separated by blanks
Rep(w, n) == IF n = 0 THEN <<>>
             ELSE IF n = 1 THEN <<w>>
             ELSE <<w, " ">> \o Rep(w, n - 1)

RECURSIVE Str(_)
\* the string made of the characters cs
Str(cs) == IF cs = <<>> THEN "" ELSE cs[1] \o Str(Tail(cs))

\* the characters of every text of the model, by name
TextChars ==
    [ ctxA    |-> Rep("a", 51),
      ctxB    |-> Rep("b", 10),
      ctxC    |-> Rep("c", 10),
      ctxD    |-> <<"d">>,
      ctxE    |-> <<"e">>,
      ctxF    |-> Rep("f", 50),
      ctxK    |-> <<"k">>,
      ctxFK   |-> <<"f", "i", "l", "e", ":", "k">>,
      ctxW    |-> <<" ">>,
      promptP |-> <<"p">>,
      promptQ |-> <<"q">> ]

\* the texts as Python strings
Text == [n \in DOMAIN TextChars |-> Str(TextChars[n])]

\* the characters of the string s
Chars(s) == TextChars[CHOOSE n \in DOMAIN TextChars : Text[n] = s]

Whitespace == {" ", "\t", "\n"}

\* len(s.split()): the number of maximal runs of non-whitespace characters
WordCount(s) ==
    LET cs == Chars(s)
    IN  Cardinality({i \in 1..Len(cs) :
            /\ cs[i] \notin Whitespace
            /\ (i = 1 \/ cs[i - 1] \in Whitespace)})

-----------------------------------------------------------------------------
(* Exact rationals and vectors *)

Abs(n) == IF n < 0 THEN -n ELSE n

RECURSIVE GCD(_, _)
GCD(a, b) == IF b = 0 THEN Abs(a) ELSE GCD(b, a % b)

\* the rational n/d in lowest terms with a positive denominator
Rat(n, d) ==
    LET g == GCD(n, d)
        s == IF d < 0 THEN -1 ELSE 1
    IN  <<s * (n \div g), s * (d \div g)>>

RatAdd(x, y) == Rat(x[1] * y[2] + y[1] * x[2], x[2] * y[2])

RatMul(x, y) == Rat(x[1] * y[1], x[2] * y[2])

RatDiv(x, y) == Rat(x[1] * y[2], x[2] * y[1])

RatInt(n) == <<n, 1>>

Min(a, b) == IF a < b THEN a ELSE b

RECURSIVE LCMDen(_)
\* the least common multiple of the denominators of the vector v
LCMDen(v) == IF v = <<>> THEN 1
             ELSE LET l == LCMDen(Tail(v))
                  IN  (l * v[1][2]) \div GCD(l, v[1][2])

RECURSIVE GCDAll(_)
GCDAll(ns) == IF ns = <<>> THEN 0 ELSE GCD(ns[1], GCDAll(Tail(ns)))

\* the shortest integer vector with the direction of v (cosine ignores length)
Direction(v) ==
    LET l  == LCMDen(v)
        ns == [i \in 1..Len(v) |-> v[i][1] * (l \div v[i][2])]
        g  == GCDAll(ns)
    IN  IF g = 0 THEN ns ELSE [i \in 1..Len(ns) |-> ns[i] \div g]

RECURSIVE DotInt(_, _)
DotInt(a, b) == IF a = <<>> \/ b = <<>> THEN 0
                ELSE a[1] * b[1] + DotInt(Tail(a), Tail(b))

\* the cosine similarity of a and b as the signed square of the cosine,
\* [num, den] with den > 0; a zero vector scores 0
Cosine(a, b) ==
    LET da == Direction(a)
        db == Direction(b)
        d  == DotInt(da, db)
        n  == DotInt(da, da) * DotInt(db, db)
        g  == GCD(d * d, n)
    IN  IF n = 0 THEN [num |-> 0, den |-> 1]
        ELSE [num |-> (IF d < 0 THEN -1 ELSE 1) * ((d * d) \div g),
              den |-> n \div g]

\* a variant of ScoreGE that leaves out a score equal to the threshold
ScoreGT(score, t) ==
    LET g == GCD(t * t, 100 * 100)
    IN  score.num * ((100 * 100) \div g) > ((t * t) \div g) * score.den

\* score >= t/100, for a threshold t/100 >= 0
ScoreGE(score, t) ==
    LET g == GCD(t * t, 100 * 100)
    IN  score.num * ((100 * 100) \div g) >= ((t * t) \div g) * score.den

\* score s is strictly higher than score r
ScoreHigher(s, r) == s.num * r.den > r.num * s.den

-----------------------------------------------------------------------------
(* embeddings.py *)

\* the vector of the integers ns
Vec(ns) == [i \in 1..Len(ns) |-> RatInt(ns[i])]

\* the unit vector the embedding model gives each text, in units of 1/20:
\* cos(A, B) = 0.96, cos(A, C) = 0.6, cos(B, C) = 0.8, cos(D, A) = 0.8,
\* cos(E, A) = 0.98 and cos(E, D) = 0.85 exactly
Embedding ==
    [s \in {Text[n] : n \in DOMAIN Text} |->
        CASE s = Text.ctxA    -> Vec(<<16, 12, 0, 0, 0>>)
          [] s = Text.ctxB    -> Vec(<<12, 16, 0, 0, 0>>)
          [] s = Text.ctxC    -> Vec(<<0, 20, 0, 0, 0>>)
          [] s = Text.ctxD    -> Vec(<<20, 0, 0, 0, 0>>)
          [] s = Text.ctxE    -> Vec(<<17, 10, 3, 1, 1>>)
          [] s = Text.ctxF    -> Vec(<<0, 0, 12, 16, 0>>)
          [] s = Text.ctxK    -> Vec(<<0, 0, 20, 0, 0>>)
          [] s = Text.ctxFK   -> Vec(<<0, 0, 0, 20, 0>>)
          [] s = Text.ctxW    -> Vec(<<0, 0, 0, 0, 20>>)
          [] s = Text.promptP -> Vec(<<16, 12, 0, 0, 0>>)
          [] s = Text.promptQ -> Vec(<<0, 20, 0, 0, 0>>)]

embed_text(text) == Embedding[text]

-----------------------------------------------------------------------------
(* The requests the callers send *)

Paths == {"x.py", "x.py:file"}

Commits == {"c1"}

\* the chunks of StoreMemoryParams.chunks, each a params.Chunk
ChunkInputs ==
    { [level |-> "file",   repo_path |-> "x.py", context |-> Text.ctxA],
      [level |-> "file",   repo_path |-> "x.py", context |-> Text.ctxB],
      [level |-> "file",   repo_path |-> "x.py", context |-> Text.ctxC],
      [level |-> "module", repo_path |-> "x.py", context |-> Text.ctxA] }

Batches == UNION {[1..n -> ChunkInputs] : n \in 0..MaxChunks}

StoreInputs == [commit_id : Commits, chunks : Batches]

\* the store requests that run while other handlers run
RacingStoreInputs == {params \in StoreInputs : params.chunks # <<>>}

\* the queries; the last one leaves every optional field to its default
QueryInputs ==
    [prompt : {Text.promptP, Text.promptQ},
     max_tokens : {50, 60},
     context_levels : {<<"file">>, <<"module">>},
     k : {1, 24}]
    \cup {[prompt |-> Text.promptP]}

\* the queries that run while other handlers run
RacingQueryInputs ==
    [prompt : {Text.promptP},
     max_tokens : {50},
     context_levels : {<<"file">>, <<"module">>},
     k : {24}]

\* chunks whose path or context holds a colon or only a blank, chunks whose
\* embeddings meet at the threshold of 0.85, a chunk of exactly 50 words and
\* a chunk of another level
EdgeChunkInputs ==
    { [level |-> "file", repo_path |-> "x.py",      context |-> Text.ctxA],
      [level |-> "file", repo_path |-> "x.py",      context |-> Text.ctxD],
      [level |-> "file", repo_path |-> "x.py",      context |-> Text.ctxE],
      [level |-> "file", repo_path |-> "x.py",      context |-> Text.ctxFK],
      [level |-> "file", repo_path |-> "x.py:file", context |-> Text.ctxK],
      [level |-> "file", repo_path |-> "x.py",      context |-> Text.ctxW],
      [level |-> "file", repo_path |-> "x.py",      context |-> Text.ctxF],
      [level |-> "module", repo_path |-> "x.py",    context |-> Text.ctxA] }

\* the chunks as a caller sends them, before params.Chunk is built
RawChunkInputs ==
    EdgeChunkInputs
    \cup {[level |-> "class", repo_path |-> "x.py", context |-> Text.ctxA]}

\* store requests as a caller sends them, one chunk each
RawStoreInputs ==
    {[commit_id |-> "c1", chunks |-> <<c>>] : c \in RawChunkInputs}

\* query requests as a caller sends them; the last one leaves every
\* optional field to its default
RawQueryInputs ==
    [prompt : {Text.promptP},
     max_tokens : {49, 50, 60, 4097},
     context_levels : {<<"file">>, <<"class">>, <<"file", "module">>,
                       <<"module", "file">>},
     k : {0, 24, 101}]
    \cup {[prompt |-> Text.promptP]}

-----------------------------------------------------------------------------
(* params.py: the validation that builds the parameters *)

\* check_levels: no entry outside DEFAULT_CONTEXT_LEVELS (else ValueError)
check_levels(context_levels) ==
    \A i \in 1..Len(context_levels) :
        \E j \in 1..Len(DEFAULT_CONTEXT_LEVELS) :
            context_levels[i] = DEFAULT_CONTEXT_LEVELS[j]

\* a variant of validate_level that lets every level pass
validate_level_any(data) == TRUE

\* Chunk.validate_level
validate_level(data) ==
    "level" \in DOMAIN data => check_levels(<<data.level>>)

\* Chunk(**data) is built
ChunkValid(data) ==
    /\ {"level", "repo_path", "context"} \subseteq DOMAIN data
    /\ validate_level(data)

\* StoreMemoryParams(**data) is built
StoreMemoryParamsValid(data) ==
    /\ "commit_id" \in DOMAIN data
    /\ "chunks" \in DOMAIN data =>
           \A i \in 1..Len(data.chunks) : ChunkValid(data.chunks[i])

\* QueryMemoryParams.validate_context_levels
validate_context_levels(data) ==
    "context_levels" \in DOMAIN data => check_levels(data.context_levels)

\* QueryMemoryParams(**data) is built: max_tokens ge=50 le=4096, k ge=1 le=100
QueryMemoryParamsValid(data) ==
    /\ "prompt" \in DOMAIN data
    /\ validate_context_levels(data)
    /\ "max_tokens" \in DOMAIN data => data.max_tokens \in 50..4096
    /\ "k" \in DOMAIN data => data.k \in 1..100

-----------------------------------------------------------------------------
(* server.py: hash_chunk_id *)

\* every string hash_chunk_id can be given by the requests above
HashedStrings ==
    {c.repo_path \o ":" \o c.level \o ":" \o c.context :
        c \in ChunkInputs \cup RawChunkInputs}

RECURSIVE Enumerate(_)
Enumerate(S) == IF S = {} THEN <<>>
                ELSE LET x == CHOOSE x \in S : TRUE
                     IN  <<x>> \o Enumerate(S \ {x})

HashedSeq == Enumerate(HashedStrings)

\* int(sha256(s).hexdigest()[:16], 16): sha256 is taken to be free of
\* collisions, a fixed one-to-one numbering of the strings it is given
Sha256Int(s) == CHOOSE i \in 1..Len(HashedSeq) : HashedSeq[i] = s

hash_chunk_id(path, level, context) ==
    Sha256Int(path \o ":" \o level \o ":" \o context)

-----------------------------------------------------------------------------
(* The vector store: qdrant_client as server.py uses it.  A collection is a *)
(* function from point id to the point [id, vector, payload].               *)

\* a variant of FieldCondition that lets every level pass
FieldConditionAnyLevel(point, key, value) ==
    key \in DOMAIN point.payload /\ (key = "level" \/ point.payload[key] = value)

\* FieldCondition(key=key, match=MatchValue(value=value)) on one point
FieldCondition(point, key, value) ==
    key \in DOMAIN point.payload /\ point.payload[key] = value

\* qdrant.upsert: each point replaces the point of its id; of two points of
\* one id in the same call the later one stays
Upsert(coll, points) ==
    LET ids == {points[i].id : i \in 1..Len(points)}
        last(id) == CHOOSE i \in 1..Len(points) :
                       /\ points[i].id = id
                       /\ \A j \in (i + 1)..Len(points) : points[j].id # id
    IN  [id \in DOMAIN coll \cup ids |->
            IF id \in ids THEN points[last(id)] ELSE coll[id]]

\* a ranks before b: the higher score first, the lower id among equal scores
RanksBefore(sc, a, b) ==
    \/ ScoreHigher(sc[a], sc[b])
    \/ (~ScoreHigher(sc[b], sc[a]) /\ a < b)

RECURSIVE Ranked(_, _)
\* the ids of S by descending score
Ranked(sc, S) ==
    IF S = {} THEN <<>>
    ELSE LET b == CHOOSE c \in S : \A d \in S \ {c} : RanksBefore(sc, c, d)
         IN  <<b>> \o Ranked(sc, S \ {b})

\* qdrant.query_points(query=query, limit=limit, must level == level): the
\* points of the level by descending cosine score, lower id first among equal
\* scores; a hit carries the stored vector only when the store returns it
QueryPoints(coll, query, limit, level, with_vectors) ==
    LET cand == {id \in DOMAIN coll : FieldCondition(coll[id], "level", level)}
        sc   == [id \in cand |-> Cosine(query, coll[id].vector)]
        all  == Ranked(sc, cand)
    IN  [i \in 1..Min(limit, Len(all)) |->
            IF with_vectors
            THEN [id |-> all[i], score |-> sc[all[i]],
                  payload |-> coll[all[i]].payload,
                  vector |-> coll[all[i]].vector]
            ELSE [id |-> all[i], score |-> sc[all[i]],
                  payload |-> coll[all[i]].payload]]

RECURSIVE Ascending(_)
\* the numbers of S in ascending order
Ascending(S) ==
    IF S = {} THEN <<>>
    ELSE LET b == CHOOSE c \in S : \A d \in S : c <= d
         IN  <<b>> \o Ascending(S \ {b})

\* qdrant.scroll(must cluster_id == cluster_id and level == level,
\* limit=limit)[0]: the first page, in the order of the point ids
Scroll(coll, cluster_id, level, limit) ==
    LET all == Ascending({id \in DOMAIN coll :
                    /\ FieldCondition(coll[id], "cluster_id", cluster_id)
                    /\ FieldCondition(coll[id], "level", level)})
    IN  [i \in 1..Min(limit, Len(all)) |-> coll[all[i]]]

-----------------------------------------------------------------------------
(* server.py: store_memory, the body of the loop over the chunks *)

\* the index of the first hit with point.score >= 0.85, 0 when there is none
FirstMatch(hits) ==
    LET ok == {i \in 1..Len(hits) : ScoreGE(hits[i].score, 85)}
    IN  IF ok = {} THEN 0 ELSE CHOOSE i \in ok : \A j \in ok : i <= j

\* [(v1 * member_count + v2) / (member_count + 1) for v1, v2 in zip(c, vec)]
RunningMean(centroid, member_count, vec) ==
    [i \in 1..Min(Len(centroid), Len(vec)) |->
        RatDiv(RatAdd(RatMul(centroid[i], RatInt(member_count)), vec[i]),
               RatInt(member_count + 1))]

\* the vector written for a chunk matched to the cluster hit `assigned`
MatchedVector(assigned, vec) ==
    IF "vector" \in DOMAIN assigned
    THEN RunningMean(assigned.vector, assigned.payload.member_count, vec)
    ELSE vec

\* a variant of MatchedCluster that reads the importance from a payload key
\* the cluster points do not have, and so always from the default
MatchedClusterDefaultImportance(assigned, vec, level) ==
    [id |-> assigned.id,
     vector |-> vec,
     payload |-> [level |-> level,
                  member_count |-> assigned.payload.member_count + 1,
                  importance |-> 2 + 1]]

\* PointStruct of the cluster a chunk is matched to
MatchedCluster(assigned, vec, level) ==
    [id |-> assigned.id,
     vector |-> vec,
     payload |-> [level |-> level,
                  member_count |-> assigned.payload.member_count + 1,
                  importance |->
                      (IF "importance" \in DOMAIN assigned.payload
                       THEN assigned.payload.importance ELSE 2) + 1]]

\* PointStruct of a new cluster
NewCluster(cluster_id, vec, level) ==
    [id |-> cluster_id,
     vector |-> vec,
     payload |-> [level |-> level, member_count |-> 1, importance |-> 2]]

\* a variant of ChunkPoint whose id also depends on the time of the call
ChunkPointTimed(cid, vec, path, level, context, cluster_id, commit_id, timestamp) ==
    [id |-> cid + timestamp,
     vector |-> vec,
     payload |-> [repo_path |-> path,
                  level |-> level,
                  context |-> context,
                  cluster_id |-> cluster_id,
                  commit_id |-> commit_id,
                  access_count |-> 0,
                  timestamp |-> timestamp]]

\* PointStruct of the chunk
ChunkPoint(cid, vec, path, level, context, cluster_id, commit_id, timestamp) ==
    [id |-> cid,
     vector |-> vec,
     payload |-> [repo_path |-> path,
                  level |-> level,
                  context |-> context,
                  cluster_id |-> cluster_id,
                  commit_id |-> commit_id,
                  access_count |-> 0,
                  timestamp |-> timestamp]]

\* one pass of the loop after the search: the cluster point and the chunk
\* point appended to to_upsert_clusters and to_upsert_chunks
AssignChunk(chunk, commit_id, hits, uuid, now) ==
    LET emb  == embed_text(chunk.context)
        cid  == hash_chunk_id(chunk.repo_path, chunk.level, chunk.context)
        m    == FirstMatch(hits)
        vec  == IF m = 0 THEN emb ELSE MatchedVector(hits[m], emb)
        cluster_id == IF m = 0 THEN uuid ELSE hits[m].id
    IN  [cluster |-> IF m = 0 THEN NewCluster(cluster_id, vec, chunk.level)
                     ELSE MatchedCluster(hits[m], vec, chunk.level),
         chunk   |-> ChunkPoint(cid, vec, chunk.repo_path, chunk.level,
                                chunk.context, cluster_id, commit_id, now)]

-----------------------------------------------------------------------------
(* server.py: query_memory, ranking and packing *)

\* x.payload.get("access_count", 0) + x.payload.get("importance", 1.0),
\* in halves
SortKey(x) ==
    2 * (IF "access_count" \in DOMAIN x.payload
         THEN x.payload.access_count ELSE 0)
    + (IF "importance" \in DOMAIN x.payload THEN x.payload.importance ELSE 2)

RECURSIVE SortedDesc(_)
\* sorted(candidate_chunks, key=SortKey, reverse=True): stable
SortedDesc(cs) ==
    IF cs = <<>> THEN <<>>
    ELSE LET top == CHOOSE i \in 1..Len(cs) :
                       /\ \A j \in 1..Len(cs) : SortKey(cs[i]) >= SortKey(cs[j])
                       /\ \A j \in 1..(i - 1) : SortKey(cs[j]) < SortKey(cs[i])
         IN  <<cs[top]>> \o
             SortedDesc([j \in 1..(Len(cs) - 1) |->
                            IF j < top THEN cs[j] ELSE cs[j + 1]])

\* the entry of the response for the chunk point c
PackItem(c) ==
    [repo_path |-> c.payload.repo_path,
     level |-> c.payload.level,
     context |-> (IF "context" \in DOMAIN c.payload
                  THEN c.payload.context ELSE ""),
     score |-> 1]

\* a variant of OverBudget that looks at the budget before adding the chunk
OverBudgetBeforeAdding(token_count, context_tokens, max_tokens) ==
    token_count > max_tokens

\* the test that ends the packing loop before the chunk of context_tokens words
OverBudget(token_count, context_tokens, max_tokens) ==
    token_count + context_tokens > max_tokens

RECURSIVE PackLoopSkipping(_, _, _, _)
\* a variant of PackLoop that skips a chunk over the budget and goes on to
\* the later, smaller ones
PackLoopSkipping(sorted_chunks, i, acc, max_tokens) ==
    IF i > Len(sorted_chunks) THEN acc
    ELSE LET c == sorted_chunks[i]
             context_tokens ==
                 IF "context" \in DOMAIN c.payload
                 THEN WordCount(c.payload.context) ELSE 0
         IN  IF OverBudget(acc.token_count, context_tokens, max_tokens)
             THEN PackLoopSkipping(sorted_chunks, i + 1, acc, max_tokens)
             ELSE PackLoopSkipping(sorted_chunks, i + 1,
                           [pack |-> Append(acc.pack, PackItem(c)),
                            token_count |-> acc.token_count + context_tokens],
                           max_tokens)

RECURSIVE PackLoop(_, _, _, _)
\* the packing loop from candidate i on: [pack, token_count]
PackLoop(sorted_chunks, i, acc, max_tokens) ==
    IF i > Len(sorted_chunks) THEN acc
    ELSE LET c == sorted_chunks[i]
             context_tokens ==
                 IF "context" \in DOMAIN c.payload
                 THEN WordCount(c.payload.context) ELSE 0
         IN  IF OverBudget(acc.token_count, context_tokens, max_tokens)
             THEN acc
             ELSE PackLoop(sorted_chunks, i + 1,
                           [pack |-> Append(acc.pack, PackItem(c)),
                            token_count |-> acc.token_count + context_tokens],
                           max_tokens)

\* a variant of QueryResponse that reports truncated when nothing was packed
QueryResponseNothingPacked(candidate_chunks, max_tokens) ==
    LET r == PackLoop(SortedDesc(candidate_chunks), 1,
                      [pack |-> <<>>, token_count |-> 0], max_tokens)
    IN  [chunks |-> r.pack,
         truncated |-> (r.pack = <<>> \/ r.token_count >= max_tokens),
         tokens |-> r.token_count]

\* a variant of QueryResponse with the comparison of truncated turned round
QueryResponseFlipped(candidate_chunks, max_tokens) ==
    LET r == PackLoop(SortedDesc(candidate_chunks), 1,
                      [pack |-> <<>>, token_count |-> 0], max_tokens)
    IN  [chunks |-> r.pack,
         truncated |-> r.token_count <= max_tokens,
         tokens |-> r.token_count]

\* a variant of QueryResponse whose truncated tells that a candidate was left
\* out
QueryResponseDropped(candidate_chunks, max_tokens) ==
    LET r == PackLoop(SortedDesc(candidate_chunks), 1,
                      [pack |-> <<>>, token_count |-> 0], max_tokens)
    IN  [chunks |-> r.pack,
         truncated |-> Len(r.pack) < Len(candidate_chunks),
         tokens |-> r.token_count]

\* the response of query_memory for the candidates scanned
QueryResponse(candidate_chunks, max_tokens) ==
    LET r == PackLoop(SortedDesc(candidate_chunks), 1,
                      [pack |-> <<>>, token_count |-> 0], max_tokens)
    IN  [chunks |-> r.pack,
         truncated |-> r.token_count >= max_tokens,
         tokens |-> r.token_count]

-----------------------------------------------------------------------------
(* State *)

VARIABLES
    collections,  \* the names of the collections that exist in the store
    clusters,     \* the cluster collection: id -> point
    chunks,       \* the chunk collection: id -> point
    pc,           \* where each server process is in its handler
    loc,          \* the parameters and local variables of the running handler
    resp,         \* the response the handler returns
    nStores,      \* store_memory calls started
    nQueries,     \* query_memory calls started
    nChunks,      \* chunks sent to store_memory so far
    before,       \* history: the two collections when the running store_memory
                  \* call began
    members,      \* history: cluster id -> the embeddings of the chunks the
                  \* successful store_memory calls assigned to it, in order
    storeError    \* history: some store_memory call returned an error

vars == <<collections, clusters, chunks, pc, loc, resp,
          nStores, nQueries, nChunks, before, members, storeError>>

\* the server processes that share the vector store
Procs == {1, 2}

NoValue == [op |-> "none"]

Empty == [id \in {} |-> NoValue]

Init ==
    /\ collections = {}
    /\ clusters = Empty
    /\ chunks = Empty
    /\ pc = [p \in Procs |-> "idle"]
    /\ loc = [p \in Procs |-> NoValue]
    /\ resp = [p \in Procs |-> NoValue]
    /\ nStores = 0
    /\ nQueries = 0
    /\ nChunks = 0
    /\ before = [p \in Procs |-> NoValue]
    /\ members = Empty
    /\ storeError = FALSE

\* time.time(): the clock ticks as the store_memory calls arrive
Now == nStores

RECURSIVE MaxOf(_)
MaxOf(S) == IF S = {} THEN 0
            ELSE LET x == CHOOSE x \in S : TRUE
                     m == MaxOf(S \ {x})
                 IN  IF x > m THEN x ELSE m

\* the ids of the cluster points the running handlers are about to upsert
PendingClusterIds ==
    UNION {{loc[p].to_upsert_clusters[i].id :
               i \in 1..Len(loc[p].to_upsert_clusters)} :
           p \in {q \in Procs : "to_upsert_clusters" \in DOMAIN loc[q]}}

\* int(uuid.uuid4().int % (2**63)): a random id, which no cluster point in
\* the store or on its way to it has
uuid4 == MaxOf(DOMAIN clusters \cup PendingClusterIds) + 1

-----------------------------------------------------------------------------
(* server.py: ensure_collections_exist *)

BothCollections == {cluster_collection, chunk_collection}

\* the collections that may exist after a failed ensure_collections_exist:
\* the loop creates the cluster collection first
AfterFailedEnsure == {collections, collections \cup {cluster_collection}}

-----------------------------------------------------------------------------
(* server.py: store_memory *)

\* the two collections as a call finds them, kept for a call that arrives
\* while no other handler is running
Snapshot ==
    IF \A q \in Procs : pc[q] = "idle"
    THEN [clusters |-> clusters, chunks |-> chunks]
    ELSE NoValue

StoreError(message) ==
    [error |-> message, indexed |-> 0, removed |-> 0, duration_ms |-> 0]

StoreFailed(p) ==
    /\ resp' = [resp EXCEPT ![p] = StoreError("Failed to store memory")]
    /\ pc' = [pc EXCEPT ![p] = "done"]
    /\ storeError' = TRUE

\* the call arrives and ensure_collections_exist() returns True
StoreCall(p, params) ==
    /\ pc[p] = "idle"
    /\ nStores + nQueries < MaxCalls
    /\ nChunks + Len(params.chunks) <= MaxChunks
    /\ nStores' = nStores + 1
    /\ nChunks' = nChunks + Len(params.chunks)
    /\ collections' = BothCollections
    /\ loc' = [loc EXCEPT ![p] =
                  [op |-> "store", params |-> params, i |-> 1,
                   to_upsert_clusters |-> <<>>, to_upsert_chunks |-> <<>>,
                   indexed |-> 0]]
    /\ before' = [before EXCEPT ![p] = Snapshot]
    /\ pc' = [pc EXCEPT ![p] = IF params.chunks = <<>>
                               THEN "store_upsert_clusters" ELSE "store_loop"]
    /\ UNCHANGED <<clusters, chunks, resp, nQueries, members,
                   storeError>>

\* the call arrives and ensure_collections_exist() returns False
StoreCallFails(p, params) ==
    /\ pc[p] = "idle"
    /\ nStores + nQueries < MaxCalls
    /\ nChunks + Len(params.chunks) <= MaxChunks
    /\ nStores' = nStores + 1
    /\ nChunks' = nChunks + Len(params.chunks)
    /\ collections' \in AfterFailedEnsure
    /\ loc' = [loc EXCEPT ![p] = [op |-> "store", params |-> params]]
    /\ before' = [before EXCEPT ![p] = Snapshot]
    /\ resp' = [resp EXCEPT ![p] =
                   StoreError("Failed to create necessary collections")]
    /\ pc' = [pc EXCEPT ![p] = "done"]
    /\ storeError' = TRUE
    /\ UNCHANGED <<clusters, chunks, nQueries, members>>

\* one pass of the loop: embed, search the clusters of the level, assign
StoreChunk(p, with_vectors) ==
    /\ pc[p] = "store_loop"
    /\ LET l     == loc[p]
           chunk == l.params.chunks[l.i]
           hits  == QueryPoints(clusters, embed_text(chunk.context), 5,
                                chunk.level, with_vectors)
           a     == AssignChunk(chunk, l.params.commit_id, hits, uuid4, Now)
       IN  /\ loc' = [loc EXCEPT ![p] =
                  [l EXCEPT !.i = l.i + 1,
                            !.to_upsert_clusters = Append(@, a.cluster),
                            !.to_upsert_chunks = Append(@, a.chunk),
                            !.indexed = @ + 1]]
           /\ pc' = [pc EXCEPT ![p] = IF l.i = Len(l.params.chunks)
                                      THEN "store_upsert_clusters"
                                      ELSE "store_loop"]
    /\ UNCHANGED <<collections, clusters, chunks, resp, nStores, nQueries, nChunks,
                   before, members, storeError>>

\* a variant of StoreSearchFails that writes the points of the chunks
\* assigned so far before it returns the error
StoreSearchFailsFlushing(p) ==
    /\ pc[p] = "store_loop"
    /\ clusters' = Upsert(clusters, loc[p].to_upsert_clusters)
    /\ chunks' = Upsert(chunks, loc[p].to_upsert_chunks)
    /\ StoreFailed(p)
    /\ UNCHANGED <<collections, loc, nStores,
                   nQueries, nChunks, before, members>>

\* qdrant.query_points raises in the loop
StoreSearchFails(p) ==
    /\ pc[p] = "store_loop"
    /\ StoreFailed(p)
    /\ UNCHANGED <<collections, clusters, chunks, loc, nStores,
                   nQueries, nChunks, before, members>>

\* a variant of StoreUpsertClusters that goes on to the chunks without
\* writing the clusters
StoreUpsertClustersSkipped(p) ==
    /\ pc[p] = "store_upsert_clusters"
    /\ pc' = [pc EXCEPT ![p] = "store_upsert_chunks"]
    /\ UNCHANGED <<collections, clusters, chunks, loc, resp, nStores,
                   nQueries, nChunks, before, members, storeError>>

\* the cluster points with member_count counted from the stored point
Rebased(coll, points) ==
    [i \in 1..Len(points) |->
        IF points[i].id \in DOMAIN coll
        THEN [points[i] EXCEPT !.payload.member_count =
                  coll[points[i].id].payload.member_count + 1]
        ELSE points[i]]

\* a variant of StoreUpsertClusters that reads and writes member_count in one
\* step
StoreUpsertClustersAtomic(p) ==
    /\ pc[p] = "store_upsert_clusters"
    /\ clusters' = IF loc[p].to_upsert_clusters # <<>>
                   THEN Upsert(clusters,
                               Rebased(clusters, loc[p].to_upsert_clusters))
                   ELSE clusters
    /\ pc' = [pc EXCEPT ![p] = "store_upsert_chunks"]
    /\ UNCHANGED <<collections, chunks, loc, resp, nStores,
                   nQueries, nChunks, before, members, storeError>>

\* if to_upsert_clusters: qdrant.upsert(cluster collection)
StoreUpsertClusters(p) ==
    /\ pc[p] = "store_upsert_clusters"
    /\ clusters' = IF loc[p].to_upsert_clusters # <<>>
                   THEN Upsert(clusters, loc[p].to_upsert_clusters)
                   ELSE clusters
    /\ pc' = [pc EXCEPT ![p] = "store_upsert_chunks"]
    /\ UNCHANGED <<collections, chunks, loc, resp, nStores,
                   nQueries, nChunks, before, members, storeError>>

\* the upsert of the clusters raises
StoreUpsertClustersFails(p) ==
    /\ pc[p] = "store_upsert_clusters"
    /\ loc[p].to_upsert_clusters # <<>>
    /\ StoreFailed(p)
    /\ UNCHANGED <<collections, clusters, chunks, loc, nStores,
                   nQueries, nChunks, before, members>>

\* the embeddings of the chunks of the call that were assigned to cluster id
AssignedTo(l, id) ==
    LET is == {i \in 1..Len(l.to_upsert_clusters) :
                  l.to_upsert_clusters[i].id = id}
        idx == Ascending(is)
    IN  [n \in 1..Len(idx) |-> embed_text(l.params.chunks[idx[n]].context)]

\* the history of the assignments after a call that succeeded
Assigned(mem, l) ==
    LET cs  == l.to_upsert_clusters
        ids == {cs[i].id : i \in 1..Len(cs)}
    IN  [id \in DOMAIN mem \cup ids |->
            (IF id \in DOMAIN mem THEN mem[id] ELSE <<>>) \o AssignedTo(l, id)]

\* if to_upsert_chunks: qdrant.upsert(chunk collection); then the return
StoreUpsertChunks(p) ==
    /\ pc[p] = "store_upsert_chunks"
    /\ chunks' = IF loc[p].to_upsert_chunks # <<>>
                 THEN Upsert(chunks, loc[p].to_upsert_chunks)
                 ELSE chunks
    /\ resp' = [resp EXCEPT ![p] =
                   [indexed |-> loc[p].indexed, removed |-> 0, duration_ms |-> 0]]
    /\ members' = Assigned(members, loc[p])
    /\ pc' = [pc EXCEPT ![p] = "done"]
    /\ UNCHANGED <<collections, clusters, loc, nStores, nQueries, nChunks,
                   before, storeError>>

\* the upsert of the chunks raises
StoreUpsertChunksFails(p) ==
    /\ pc[p] = "store_upsert_chunks"
    /\ loc[p].to_upsert_chunks # <<>>
    /\ StoreFailed(p)
    /\ UNCHANGED <<collections, clusters, chunks, loc, nStores,
                   nQueries, nChunks, before, members>>

-----------------------------------------------------------------------------
(* server.py: query_memory *)

QueryError(message) ==
    [error |-> message, chunks |-> <<>>, truncated |-> FALSE, tokens |-> 0]

\* params.<field> or <default>
OrDefault(params, field, default, falsy) ==
    IF field \in DOMAIN params /\ params[field] # falsy
    THEN params[field] ELSE default

\* a variant of QueryCall that works on the last entry of context_levels
QueryCallLastLevel(p, params) ==
    /\ pc[p] = "idle"
    /\ nStores + nQueries < MaxCalls
    /\ nQueries' = nQueries + 1
    /\ collections' = BothCollections
    /\ loc' = [loc EXCEPT ![p] =
                  [op |-> "query", params |-> params,
                   max_tokens |-> OrDefault(params, "max_tokens",
                                            default_max_tokens, 0),
                   levels |-> LET ls == OrDefault(params, "context_levels",
                                                  DEFAULT_CONTEXT_LEVELS, <<>>)
                              IN  <<ls[Len(ls)]>>,
                   k |-> OrDefault(params, "k", default_k, 0),
                   hits |-> <<>>, j |-> 1, candidate_chunks |-> <<>>]]
    /\ pc' = [pc EXCEPT ![p] = "query_search"]
    /\ UNCHANGED <<clusters, chunks, resp, nStores, nChunks,
                   before, members, storeError>>

\* the call arrives and ensure_collections_exist() returns True
QueryCall(p, params) ==
    /\ pc[p] = "idle"
    /\ nStores + nQueries < MaxCalls
    /\ nQueries' = nQueries + 1
    /\ collections' = BothCollections
    /\ loc' = [loc EXCEPT ![p] =
                  [op |-> "query", params |-> params,
                   max_tokens |-> OrDefault(params, "max_tokens",
                                            default_max_tokens, 0),
                   levels |-> OrDefault(params, "context_levels",
                                        DEFAULT_CONTEXT_LEVELS, <<>>),
                   k |-> OrDefault(params, "k", default_k, 0),
                   hits |-> <<>>, j |-> 1, candidate_chunks |-> <<>>]]
    /\ pc' = [pc EXCEPT ![p] = "query_search"]
    /\ UNCHANGED <<clusters, chunks, resp, nStores, nChunks,
                   before, members, storeError>>

\* the call arrives and ensure_collections_exist() returns False
QueryCallFails(p, params) ==
    /\ pc[p] = "idle"
    /\ nStores + nQueries < MaxCalls
    /\ nQueries' = nQueries + 1
    /\ collections' \in AfterFailedEnsure
    /\ loc' = [loc EXCEPT ![p] = [op |-> "query", params |-> params]]
    /\ resp' = [resp EXCEPT ![p] =
                   QueryError("Failed to create necessary collections")]
    /\ pc' = [pc EXCEPT ![p] = "done"]
    /\ UNCHANGED <<clusters, chunks, nStores, nChunks, before,
                   members, storeError>>

\* embed the prompt and search the cluster centroids of levels[0]; the
\* handler reads the id of a hit only
QuerySearch(p) ==
    /\ pc[p] = "query_search"
    /\ LET l    == loc[p]
           hits == QueryPoints(clusters, embed_text(l.params.prompt), 10,
                               l.levels[1], FALSE)
       IN  /\ loc' = [loc EXCEPT ![p] = [l EXCEPT !.hits = hits]]
           /\ IF hits = <<>>
              THEN /\ resp' = [resp EXCEPT ![p] = QueryResponse(<<>>, l.max_tokens)]
                   /\ pc' = [pc EXCEPT ![p] = "done"]
              ELSE /\ resp' = resp
                   /\ pc' = [pc EXCEPT ![p] = "query_scroll"]
    /\ UNCHANGED <<collections, clusters, chunks, nStores,
                   nQueries, nChunks, before, members, storeError>>

\* qdrant.query_points raises
QuerySearchFails(p) ==
    /\ pc[p] = "query_search"
    /\ resp' = [resp EXCEPT ![p] = QueryError("Failed to query memory")]
    /\ pc' = [pc EXCEPT ![p] = "done"]
    /\ UNCHANGED <<collections, clusters, chunks, loc, nStores,
                   nQueries, nChunks, before, members, storeError>>

\* a variant of QueryScroll that counts the read in the access_count of the
\* chunks it scans
QueryScrollCounting(p) ==
    /\ pc[p] = "query_scroll"
    /\ LET l     == loc[p]
           page  == Scroll(chunks, l.hits[l.j].id, l.levels[1], l.k)
           cands == l.candidate_chunks \o page
           read  == {page[i].id : i \in 1..Len(page)}
       IN  /\ loc' = [loc EXCEPT ![p] =
                         [l EXCEPT !.j = l.j + 1, !.candidate_chunks = cands]]
           /\ chunks' = [id \in DOMAIN chunks |->
                            IF id \in read
                            THEN [chunks[id] EXCEPT !.payload.access_count = 1]
                            ELSE chunks[id]]
           /\ IF l.j = Len(l.hits)
              THEN /\ resp' = [resp EXCEPT ![p] = QueryResponse(cands, l.max_tokens)]
                   /\ pc' = [pc EXCEPT ![p] = "done"]
              ELSE /\ resp' = resp
                   /\ pc' = pc
    /\ UNCHANGED <<collections, clusters, nStores,
                   nQueries, nChunks, before, members, storeError>>

\* one pass of the loop over hits.points: scan the chunks of the cluster;
\* after the last cluster, sort, pack and return
QueryScroll(p) ==
    /\ pc[p] = "query_scroll"
    /\ LET l     == loc[p]
           page  == Scroll(chunks, l.hits[l.j].id, l.levels[1], l.k)
           cands == l.candidate_chunks \o page
       IN  /\ loc' = [loc EXCEPT ![p] =
                         [l EXCEPT !.j = l.j + 1, !.candidate_chunks = cands]]
           /\ IF l.j = Len(l.hits)
              THEN /\ resp' = [resp EXCEPT ![p] = QueryResponse(cands, l.max_tokens)]
                   /\ pc' = [pc EXCEPT ![p] = "done"]
              ELSE /\ resp' = resp
                   /\ pc' = pc
    /\ UNCHANGED <<collections, clusters, chunks, nStores,
                   nQueries, nChunks, before, members, storeError>>

\* a variant of QueryScrollFails that returns, with the error, the chunks of
\* the clusters scanned before the failure
QueryScrollFailsPartial(p) ==
    /\ pc[p] = "query_scroll"
    /\ resp' = [resp EXCEPT ![p] =
                   LET r == QueryResponse(loc[p].candidate_chunks,
                                          loc[p].max_tokens)
                   IN  [error |-> "Failed to retrieve chunks",
                        chunks |-> r.chunks,
                        truncated |-> r.truncated,
                        tokens |-> r.tokens]]
    /\ pc' = [pc EXCEPT ![p] = "done"]
    /\ UNCHANGED <<collections, clusters, chunks, loc, nStores,
                   nQueries, nChunks, before, members, storeError>>

\* qdrant.scroll raises
QueryScrollFails(p) ==
    /\ pc[p] = "query_scroll"
    /\ resp' = [resp EXCEPT ![p] = QueryError("Failed to retrieve chunks")]
    /\ pc' = [pc EXCEPT ![p] = "done"]
    /\ UNCHANGED <<collections, clusters, chunks, loc, nStores,
                   nQueries, nChunks, before, members, storeError>>

-----------------------------------------------------------------------------
(* The response goes back to the caller; the process is free again *)

Return(p) ==
    /\ pc[p] = "done"
    /\ pc' = [pc EXCEPT ![p] = "idle"]
    /\ loc' = [loc EXCEPT ![p] = NoValue]
    /\ resp' = [resp EXCEPT ![p] = NoValue]
    /\ before' = [before EXCEPT ![p] = NoValue]
    /\ UNCHANGED <<collections, clusters, chunks, nStores,
                   nQueries, nChunks, members, storeError>>

-----------------------------------------------------------------------------
(* A request whose parameters cannot be built never reaches its handler *)

Rejected(p, data) ==
    /\ pc[p] = "idle"
    /\ nStores + nQueries < MaxCalls
    /\ loc' = [loc EXCEPT ![p] = [op |-> "rejected", params |-> data]]
    /\ resp' = [resp EXCEPT ![p] = [error |-> "validation error"]]
    /\ pc' = [pc EXCEPT ![p] = "done"]
    /\ UNCHANGED <<collections, clusters, chunks, nStores, nQueries, nChunks,
                   before, members, storeError>>

-----------------------------------------------------------------------------
(* Specifications *)

Step(p) ==
    \/ \E with_vectors \in BOOLEAN : StoreChunk(p, with_vectors)
    \/ StoreSearchFails(p)
    \/ StoreUpsertClusters(p)
    \/ StoreUpsertClustersFails(p)
    \/ StoreUpsertChunks(p)
    \/ StoreUpsertChunksFails(p)
    \/ QuerySearch(p)
    \/ QuerySearchFails(p)
    \/ QueryScroll(p)
    \/ QueryScrollFails(p)
    \/ Return(p)

Call(p, stores, queries) ==
    \/ \E params \in stores : StoreCall(p, params)
    \/ \E params \in stores : StoreCallFails(p, params)
    \/ \E params \in queries : QueryCall(p, params)
    \/ \E params \in queries : QueryCallFails(p, params)

\* a call goes to the first server process that is free
Free(p) == pc[p] = "idle" /\ \A q \in Procs : q < p => pc[q] # "idle"

\* server processes run their handlers concurrently against the one store
Next ==
    \E p \in Procs :
        \/ (Free(p) /\ Call(p, RacingStoreInputs, RacingQueryInputs))
        \/ Step(p)

Spec == Init /\ [][Next]_vars

AllIdle == \A p \in Procs : pc[p] = "idle"

\* one request at a time: a call arrives only when no handler is running
SeqNext == \/ (AllIdle /\ Call(1, StoreInputs, QueryInputs))
           \/ Step(1)

SeqSpec == Init /\ [][SeqNext]_vars

\* the chunk a store_memory of an earlier run of the server stored
EarlierChunk ==
    [level |-> "file", repo_path |-> "x.py", context |-> Text.ctxA]

\* what that store_memory wrote
EarlierStore == AssignChunk(EarlierChunk, "c1", <<>>, 1, 0)

\* server processes start against collections that hold one cluster and its
\* one chunk: the store outlives the servers
PopulatedInit ==
    /\ collections = BothCollections
    /\ clusters = Upsert(Empty, <<EarlierStore.cluster>>)
    /\ chunks = Upsert(Empty, <<EarlierStore.chunk>>)
    /\ pc = [p \in Procs |-> "idle"]
    /\ loc = [p \in Procs |-> NoValue]
    /\ resp = [p \in Procs |-> NoValue]
    /\ nStores = 0
    /\ nQueries = 0
    /\ nChunks = 0
    /\ before = [p \in Procs |-> NoValue]
    /\ members = (EarlierStore.cluster.id
                      :> <<embed_text(EarlierChunk.context)>>)
    /\ storeError = FALSE

\* the requests of the servers that race on that cluster
RaceStoreInputs ==
    {[commit_id |-> "c1", chunks |-> <<c>>] :
        c \in {d \in ChunkInputs : d.level = "file" /\ d.context # Text.ctxC}}

RaceQueryInputs ==
    {q \in RacingQueryInputs : q.context_levels = <<"file">>}

RaceNext ==
    \E p \in Procs :
        \/ (Free(p) /\ Call(p, RaceStoreInputs, RaceQueryInputs))
        \/ Step(p)

RaceSpec == PopulatedInit /\ [][RaceNext]_vars

\* a request as the caller sends it: the parameters are built, or it is
\* rejected
RawCall(p, stores, queries) ==
    \/ \E data \in stores :
           /\ StoreMemoryParamsValid(data)
           /\ (StoreCall(p, data) \/ StoreCallFails(p, data))
    \/ \E data \in stores :
           ~StoreMemoryParamsValid(data) /\ Rejected(p, data)
    \/ \E data \in queries :
           /\ QueryMemoryParamsValid(data)
           /\ (QueryCall(p, data) \/ QueryCallFails(p, data))
    \/ \E data \in queries :
           ~QueryMemoryParamsValid(data) /\ Rejected(p, data)

\* one request at a time, of the requests RawStoreInputs and RawQueryInputs
EdgeNext == \/ (AllIdle /\ RawCall(1, RawStoreInputs, RawQueryInputs))
            \/ Step(1)

EdgeSpec == Init /\ [][EdgeNext]_vars

-----------------------------------------------------------------------------
(* Claims *)

\* no handler is between two of its steps
Quiescent == \A p \in Procs : pc[p] \in {"idle", "done"}

StoreDone(p) == pc[p] = "done" /\ loc[p].op = "store"

QueryDone(p) == pc[p] = "done" /\ loc[p].op = "query"

Succeeded(p) == "error" \notin DOMAIN resp[p]

RECURSIVE VecSum(_)
\* the sum of the vectors vs, component by component
VecSum(vs) ==
    IF Len(vs) = 1 THEN vs[1]
    ELSE LET r == VecSum(Tail(vs))
         IN  [i \in 1..Len(r) |-> RatAdd(vs[1][i], r[i])]

\* the mean of the vectors vs
Mean(vs) ==
    LET t == VecSum(vs)
    IN  [i \in 1..Len(t) |-> RatDiv(t[i], RatInt(Len(vs)))]

\* C1: after successful store_memory calls only, a cluster that N chunks were
\* assigned to has member_count N and importance 1.0 + 0.5 * (N - 1)
C1_MemberCount ==
    (Quiescent /\ ~storeError) =>
        \A id \in DOMAIN clusters :
            /\ id \in DOMAIN members
            /\ clusters[id].payload.member_count = Len(members[id])
            /\ clusters[id].payload.importance = 2 + (Len(members[id]) - 1)

\* C2: after successful store_memory calls only, the vector of a cluster is the
\* mean of the embeddings of the chunks assigned to it
C2_CentroidIsMean ==
    (Quiescent /\ ~storeError) =>
        \A id \in DOMAIN clusters :
            id \in DOMAIN members /\ clusters[id].vector = Mean(members[id])

\* C3: in every state, also between the two upserts of a store_memory and
\* while other handlers run, the cluster_id of every chunk is the id of a
\* cluster of the cluster collection that has the level of the chunk
C3_ChunkHasCluster ==
    \A id \in DOMAIN chunks :
        /\ chunks[id].payload.cluster_id \in DOMAIN clusters
        /\ clusters[chunks[id].payload.cluster_id].payload.level
               = chunks[id].payload.level

\* a handler has upserted its clusters and not yet its chunks, while another
\* handler runs and the chunk collection holds chunks
C3_Witness ==
    \E p, q \in Procs :
        /\ p # q
        /\ pc[p] = "store_upsert_chunks"
        /\ loc[p].to_upsert_clusters # <<>>
        /\ \A i \in 1..Len(loc[p].to_upsert_clusters) :
               loc[p].to_upsert_clusters[i].id \in DOMAIN clusters
        /\ pc[q] \in {"store_loop", "store_upsert_clusters", "query_scroll"}
        /\ DOMAIN chunks # {}

\* C4: when store_memory returns an error, the two collections are as they
\* were when the call began
C4_NoPartialCommit ==
    \A p \in Procs :
        (StoreDone(p) /\ ~Succeeded(p)) =>
            /\ clusters = before[p].clusters
            /\ chunks = before[p].chunks

ClusterRank(item) ==
    LET c == chunks[hash_chunk_id(item.repo_path, item.level, item.context)]
    IN  2 * c.payload.access_count
        + clusters[c.payload.cluster_id].payload.importance

\* C6: query_memory returns the chunks in non-increasing order of
\* access_count + importance of the cluster of the chunk
C6_RankedByImportance ==
    \A p \in Procs :
        (QueryDone(p) /\ Succeeded(p)) =>
            \A i, j \in 1..Len(resp[p].chunks) :
                i < j => ClusterRank(resp[p].chunks[i])
                             >= ClusterRank(resp[p].chunks[j])

RECURSIVE SumWords(_)
\* the words of the contexts of the returned chunks
SumWords(items) ==
    IF items = <<>> THEN 0
    ELSE WordCount(items[1].context) + SumWords(Tail(items))

\* C7: the tokens of a response are at most max_tokens and are the sum of the
\* word counts of the contexts of the returned chunks
C7_TokensWithinBudget ==
    \A p \in Procs :
        QueryDone(p) =>
            /\ resp[p].tokens <= OrDefault(loc[p].params, "max_tokens",
                                           default_max_tokens, 0)
            /\ resp[p].tokens = SumWords(resp[p].chunks)

\* a query returned some chunks and left others out
C7_Witness ==
    \E p \in Procs :
        /\ QueryDone(p)
        /\ Succeeded(p)
        /\ resp[p].chunks # <<>>
        /\ Len(resp[p].chunks) < Len(loc[p].candidate_chunks)

\* values of max_tokens to compare a response with
Budgets == {50, 55, 60, 61, 71, 1000, 4096}

\* C8: for the store state and the query of a response, a larger max_tokens
\* returns at least as many chunks and a smaller one at most as many
C8_MoreBudgetMoreChunks ==
    \A p \in Procs :
        (QueryDone(p) /\ Succeeded(p)) =>
            \A b \in Budgets :
                LET n == Len(QueryResponse(loc[p].candidate_chunks, b).chunks)
                IN  /\ b > loc[p].max_tokens => n >= Len(resp[p].chunks)
                    /\ b < loc[p].max_tokens => n <= Len(resp[p].chunks)

\* a query whose response a larger max_tokens makes longer
C8_Witness ==
    \E p \in Procs :
        /\ QueryDone(p)
        /\ Succeeded(p)
        /\ resp[p].chunks # <<>>
        /\ \E b \in Budgets :
               /\ b > loc[p].max_tokens
               /\ Len(QueryResponse(loc[p].candidate_chunks, b).chunks)
                      > Len(resp[p].chunks)

\* C9: every chunk a query returns has the level the query asked for
C9_OnlyRequestedLevel ==
    \A p \in Procs :
        QueryDone(p) =>
            \A i \in 1..Len(resp[p].chunks) :
                resp[p].chunks[i].level
                    = OrDefault(loc[p].params, "context_levels",
                                DEFAULT_CONTEXT_LEVELS, <<>>)[1]

\* a query returned chunks while the store holds chunks of another level
C9_Witness ==
    \E p \in Procs :
        /\ QueryDone(p)
        /\ resp[p].chunks # <<>>
        /\ \E id \in DOMAIN chunks :
               chunks[id].payload.level # loc[p].levels[1]

\* the chunk point of `points` that holds the path, level and context of c
Stored(points, c) ==
    {id \in DOMAIN points :
        /\ points[id].payload.repo_path = c.repo_path
        /\ points[id].payload.level = c.level
        /\ points[id].payload.context = c.context}

\* every chunk of the call of p was in the chunk collection when it began
Restore(p) ==
    /\ StoreDone(p)
    /\ Succeeded(p)
    /\ loc[p].params.chunks # <<>>
    /\ \A i \in 1..Len(loc[p].params.chunks) :
           Stored(before[p].chunks, loc[p].params.chunks[i]) # {}

\* C10: a store_memory of chunks stored before writes each under the id of
\* the point that holds it, and leaves the set of chunk ids as it was
C10_RestoreKeepsIds ==
    \A p \in Procs :
        Restore(p) =>
            /\ \A i \in 1..Len(loc[p].params.chunks) :
                   loc[p].to_upsert_chunks[i].id
                       \in Stored(before[p].chunks, loc[p].params.chunks[i])
            /\ DOMAIN chunks = DOMAIN before[p].chunks

C10_Witness == \E p \in Procs : Restore(p)

\* the path, level and context a chunk point was built from
Triple(point) ==
    <<point.payload.repo_path, point.payload.level, point.payload.context>>

\* C11: two chunks that differ in path, level or context never get the same
\* id: a chunk point about to be written under the id of a stored chunk point
\* holds the path, level and context of that point
C11_IdPerTriple ==
    \A p \in Procs :
        "to_upsert_chunks" \in DOMAIN loc[p] =>
            \A i \in 1..Len(loc[p].to_upsert_chunks) :
                LET point == loc[p].to_upsert_chunks[i]
                IN  point.id \in DOMAIN chunks =>
                        Triple(chunks[point.id]) = Triple(point)

\* process p has upserted the cluster points of its store_memory
Wrote(p) ==
    /\ loc[p].op = "store"
    /\ \/ pc[p] = "store_upsert_chunks"
       \/ pc[p] = "done" /\ Succeeded(p)

\* the last cluster point of its id among the cluster points of process p
LastPoints(p) ==
    LET cs == loc[p].to_upsert_clusters
    IN  {cs[i] : i \in {j \in 1..Len(cs) :
                            \A k \in (j + 1)..Len(cs) : cs[k].id # cs[j].id}}

\* C12: when two store_memory calls that run side by side have both read
\* member_count m of one cluster and both upserted it, the cluster holds
\* m + 1: one of the two assignments is lost
C12_LastWriteWins ==
    \A p, q \in Procs :
        (p # q /\ Wrote(p) /\ Wrote(q)) =>
            \A a \in LastPoints(p), b \in LastPoints(q) :
                (a.id = b.id
                    /\ a.payload.member_count = b.payload.member_count) =>
                    clusters[a.id].payload.member_count
                        = a.payload.member_count

\* two store_memory calls have returned without error, each assigned a chunk
\* to the same cluster, and the cluster counts one member less than were
\* assigned to it
C12_Witness ==
    \E p, q \in Procs :
        /\ p # q
        /\ StoreDone(p) /\ Succeeded(p)
        /\ StoreDone(q) /\ Succeeded(q)
        /\ \E a \in LastPoints(p), b \in LastPoints(q) :
               /\ a.id = b.id
               /\ a.payload.member_count = b.payload.member_count
               /\ clusters[a.id].payload.member_count = a.payload.member_count
               /\ Len(members[a.id]) = a.payload.member_count + 1

\* C13: from one state to the next no cluster leaves the cluster collection
\* and no member_count and no importance decreases
C13_NeverDecreases ==
    [][\A id \in DOMAIN clusters :
          /\ id \in DOMAIN clusters'
          /\ clusters'[id].payload.member_count
                 >= clusters[id].payload.member_count
          /\ clusters'[id].payload.importance
                 >= clusters[id].payload.importance]_vars

\* the store_memory of p returned an error from inside its loop over the
\* chunks: the search of chunk loc[p].i raised
SearchFailed(p) ==
    /\ StoreDone(p)
    /\ ~Succeeded(p)
    /\ "i" \in DOMAIN loc[p]
    /\ loc[p].i <= Len(loc[p].params.chunks)

\* C14: while store_memory is in its loop, and after a search of the loop
\* raised, the two collections are as they were when the call began, and the
\* error result reports indexed 0
C14_SearchFailureWritesNothing ==
    \A p \in Procs :
        /\ (pc[p] = "store_loop" \/ SearchFailed(p)) =>
               /\ clusters = before[p].clusters
               /\ chunks = before[p].chunks
        /\ SearchFailed(p) => resp[p].indexed = 0

\* the search raised after chunks of the batch had been assigned
C14_Witness ==
    \E p \in Procs :
        /\ SearchFailed(p)
        /\ loc[p].i >= 2
        /\ loc[p].to_upsert_chunks # <<>>

\* C15: store_memory always returns indexed, removed and duration_ms, and
\* query_memory always returns chunks, truncated and tokens; with an error
\* field indexed is 0, respectively chunks is empty, tokens 0 and truncated
\* false
C15_WellFormedResponse ==
    \A p \in Procs :
        /\ StoreDone(p) =>
               /\ {"indexed", "removed", "duration_ms"} \subseteq DOMAIN resp[p]
               /\ ~Succeeded(p) => resp[p].indexed = 0
        /\ QueryDone(p) =>
               /\ {"chunks", "truncated", "tokens"} \subseteq DOMAIN resp[p]
               /\ ~Succeeded(p) =>
                      /\ resp[p].chunks = <<>>
                      /\ resp[p].tokens = 0
                      /\ resp[p].truncated = FALSE

\* a scan of query_memory raised after the chunks of a cluster had been
\* scanned
C15_Witness ==
    \E p \in Procs :
        /\ QueryDone(p)
        /\ ~Succeeded(p)
        /\ "candidate_chunks" \in DOMAIN loc[p]
        /\ loc[p].candidate_chunks # <<>>

\* the five defined levels
Levels == {DEFAULT_CONTEXT_LEVELS[i] : i \in 1..Len(DEFAULT_CONTEXT_LEVELS)}

\* the parameters a running handler was called with are within the limits
WithinLimits(l) ==
    /\ l.op = "store" =>
           \A i \in 1..Len(l.params.chunks) :
               l.params.chunks[i].level \in Levels
    /\ l.op = "query" =>
           /\ "max_tokens" \in DOMAIN l.params =>
                  (l.params.max_tokens >= 50 /\ l.params.max_tokens <= 4096)
           /\ "k" \in DOMAIN l.params =>
                  (l.params.k >= 1 /\ l.params.k <= 100)
           /\ "context_levels" \in DOMAIN l.params =>
                  \A i \in 1..Len(l.params.context_levels) :
                      l.params.context_levels[i] \in Levels

FullCycle(p, id) ==
    /\ QueryDone(p)
    /\ Succeeded(p)
    /\ nStores = 1
    /\ ~storeError
    /\ DOMAIN chunks = {id}
    /\ loc[p].levels = <<chunks[id].payload.level>>
    /\ loc[p].max_tokens > WordCount(chunks[id].payload.context)

\* the response holds the one chunk, tokens > 0 and truncated false
ReturnsChunk(p, id) ==
    /\ Len(resp[p].chunks) = 1
    /\ resp[p].chunks[1].repo_path = chunks[id].payload.repo_path
    /\ resp[p].chunks[1].context = chunks[id].payload.context
    /\ resp[p].tokens > 0
    /\ resp[p].truncated = FALSE

\* C17 as stated: after one chunk with a non-empty context was stored, the
\* query returns it with tokens > 0 and truncated false
C17_FullCycle ==
    \A p \in Procs : \A id \in DOMAIN chunks :
        (FullCycle(p, id) /\ chunks[id].payload.context # "") =>
            ReturnsChunk(p, id)

\* C17, amended: after one chunk whose context holds at least one word was
\* stored, the query returns it with tokens > 0 and truncated false
C17_FullCycleWithWords ==
    \A p \in Procs : \A id \in DOMAIN chunks :
        (FullCycle(p, id) /\ WordCount(chunks[id].payload.context) > 0) =>
            ReturnsChunk(p, id)

\* the full cycle happened with a chunk of 51 words
C17_Witness ==
    \E p \in Procs : \E id \in DOMAIN chunks :
        /\ FullCycle(p, id)
        /\ WordCount(chunks[id].payload.context) > 50

\* the score is at least 0.85: its square, num / den, is at least 289 / 400
AtThreshold(score) == score.num * 400 >= 289 * score.den

\* C18: each pass of the loop of store_memory assigns its chunk to the first
\* of the top 5 clusters of the level whose score is at least 0.85, and makes
\* a new cluster exactly when none of them reaches 0.85
C18_FirstMatchAtThreshold ==
    [][\A p \in Procs :
          (pc[p] = "store_loop" /\ loc'[p].i = loc[p].i + 1) =>
              LET chunk == loc[p].params.chunks[loc[p].i]
                  hits  == QueryPoints(clusters, embed_text(chunk.context), 5,
                                       chunk.level, FALSE)
                  ok    == {i \in 1..Len(hits) : AtThreshold(hits[i].score)}
                  point == loc'[p].to_upsert_clusters[loc[p].i]
              IN  IF ok = {}
                  THEN /\ point.id \notin DOMAIN clusters
                       /\ point.payload.member_count = 1
                  ELSE \E i \in ok :
                          /\ \A j \in ok : i <= j
                          /\ point.id = hits[i].id
                          /\ point.payload.member_count
                                 = hits[i].payload.member_count + 1]_vars

\* the chunk of context E was assigned to the cluster the chunk of context D
\* made, at a score of exactly 0.85
C18_Witness ==
    \E id \in DOMAIN members :
        members[id] = <<embed_text(Text.ctxD), embed_text(Text.ctxE)>>

\* C19: no step changes the timestamp of a chunk that is in the chunk
\* collection
C19_TimestampKept ==
    [][\A id \in DOMAIN chunks :
          chunks'[id].payload.timestamp = chunks[id].payload.timestamp]_vars

C21_TruncatedIffFull ==
    \A p \in Procs :
        (QueryDone(p) /\ Succeeded(p)) =>
            LET sorted_chunks == SortedDesc(loc[p].candidate_chunks)
            IN  /\ resp[p].truncated <=> (resp[p].tokens = loc[p].max_tokens)
                /\ (/\ sorted_chunks # <<>>
                    /\ WordCount(PackItem(sorted_chunks[1]).context)
                           > loc[p].max_tokens)
                   => resp[p] = [chunks |-> <<>>, tokens |-> 0,
                                 truncated |-> FALSE]

\* a query has returned chunks whose words fill max_tokens exactly
C21_Witness ==
    \E p \in Procs :
        /\ QueryDone(p)
        /\ Succeeded(p)
        /\ resp[p].chunks # <<>>
        /\ resp[p].tokens = loc[p].max_tokens
        /\ resp[p].truncated

RECURSIVE Gathered(_, _, _)
\* the chunks of the clusters hits at the one level, k at most per cluster
Gathered(hits, level, k) ==
    IF hits = <<>> THEN <<>>
    ELSE Scroll(chunks, hits[1].id, level, k) \o Gathered(Tail(hits), level, k)

\* the response to the query of the one level against the collections as
\* they are
SingleLevelResponse(prompt, level, k, max_tokens) ==
    QueryResponse(Gathered(QueryPoints(clusters, embed_text(prompt), 10,
                                       level, FALSE), level, k),
                  max_tokens)

\* the first of the context_levels of the query of p, or of the default list
FirstLevel(p) ==
    IF "context_levels" \in DOMAIN loc[p].params
    THEN loc[p].params.context_levels[1]
    ELSE DEFAULT_CONTEXT_LEVELS[1]

\* C22: the response to a query with context_levels [L1, L2, ...] is the
\* response to the query with [L1], and every chunk of it is of level L1; a
\* query without context_levels is answered from the first default level
C22_FirstLevelOnly ==
    \A p \in Procs :
        (QueryDone(p) /\ Succeeded(p)) =>
            /\ resp[p] = SingleLevelResponse(loc[p].params.prompt,
                                             FirstLevel(p), loc[p].k,
                                             loc[p].max_tokens)
            /\ \A i \in 1..Len(resp[p].chunks) :
                   resp[p].chunks[i].level = FirstLevel(p)

\* a query of two levels has returned chunks while chunks of its second
\* level are stored
C22_Witness ==
    \E p \in Procs :
        /\ QueryDone(p)
        /\ Succeeded(p)
        /\ "context_levels" \in DOMAIN loc[p].params
        /\ Len(loc[p].params.context_levels) > 1
        /\ resp[p].chunks # <<>>
        /\ \E id \in DOMAIN chunks :
               chunks[id].payload.level = loc[p].params.context_levels[2]

\* the store_memory of the one chunk of p has returned without error, the
\* chunk was matched to a cluster stored before the call, and the hit came
\* without a vector: the vector of the chunk point is the embedding
MatchedWithoutVector(p) ==
    /\ StoreDone(p)
    /\ Succeeded(p)
    /\ Len(loc[p].params.chunks) = 1
    /\ loc[p].to_upsert_clusters[1].id \in DOMAIN before[p].clusters
    /\ loc[p].to_upsert_chunks[1].vector
           = embed_text(loc[p].params.chunks[1].context)

\* C23: a store_memory whose matched cluster comes back without its vector
\* raises the member_count of the cluster by 1 and its importance by 0.5,
\* leaves the stored centroid as it was, and stores the chunk with the
\* embedding as its vector
C23_CentroidKeptWithoutVector ==
    \A p \in Procs :
        MatchedWithoutVector(p) =>
            LET id  == loc[p].to_upsert_clusters[1].id
                old == before[p].clusters[id]
                cid == loc[p].to_upsert_chunks[1].id
            IN  /\ clusters[id].payload.member_count
                       = old.payload.member_count + 1
                /\ clusters[id].payload.importance
                       = old.payload.importance + 1
                /\ chunks[cid].vector
                       = embed_text(loc[p].params.chunks[1].context)
                /\ clusters[id].vector = old.vector

\* C24: the chunks of a response are the first candidates of the ranked
\* list, in its order, and when a candidate is left out the one ranked just
\* after the returned ones would take the total above max_tokens
C24_PrefixOfRanked ==
    \A p \in Procs :
        (QueryDone(p) /\ Succeeded(p)) =>
            LET sorted_chunks == SortedDesc(loc[p].candidate_chunks)
                n == Len(resp[p].chunks)
            IN  /\ n <= Len(sorted_chunks)
                /\ \A i \in 1..n : resp[p].chunks[i] = PackItem(sorted_chunks[i])
                /\ n < Len(sorted_chunks) =>
                       resp[p].tokens
                           + WordCount(PackItem(sorted_chunks[n + 1]).context)
                       > loc[p].max_tokens

\* a query has left out a candidate that would still fit in max_tokens,
\* ranked after the one at which packing stopped
C24_Witness ==
    \E p \in Procs :
        /\ QueryDone(p)
        /\ Succeeded(p)
        /\ LET sorted_chunks == SortedDesc(loc[p].candidate_chunks)
               n == Len(resp[p].chunks)
           IN  \E j \in (n + 2)..Len(sorted_chunks) :
                   resp[p].tokens
                       + WordCount(PackItem(sorted_chunks[j]).context)
                   <= loc[p].max_tokens

\* the step is one of the query_memory of p: its arrival or one of its steps
QueryStep(p) ==
    /\ loc'[p].op = "query"
    /\ (pc'[p] # pc[p] \/ loc'[p] # loc[p] \/ resp'[p] # resp[p])

\* C25: no step of a query_memory changes a cluster record or a chunk record,
\* also while store_memory calls run, and the access_count of every chunk
\* is 0 in every state
C25_QueryWritesNothing ==
    /\ [](\A id \in DOMAIN chunks : chunks[id].payload.access_count = 0)
    /\ [][\A p \in Procs :
             QueryStep(p) => (clusters' = clusters /\ chunks' = chunks)]_vars

\* a query has scanned chunks and returned while the store_memory of another
\* process is between two of its steps
C25_Witness ==
    \E p, q \in Procs :
        /\ QueryDone(p)
        /\ Succeeded(p)
        /\ loc[p].candidate_chunks # <<>>
        /\ loc[q].op = "store"
        /\ pc[q] \notin {"idle", "done"}

RECURSIVE SuccessiveStores(_, _, _)
\* the cluster collections that successive store_memory calls of one chunk
\* each, for the chunks cs in their order, may leave from the collection cl
SuccessiveStores(cl, cs, commit_id) ==
    IF cs = <<>> THEN {cl}
    ELSE UNION {
        LET hits == QueryPoints(cl, embed_text(cs[1].context), 5,
                                cs[1].level, with_vectors)
            a    == AssignChunk(cs[1], commit_id, hits,
                                MaxOf(DOMAIN cl) + 1, 0)
        IN  SuccessiveStores(Upsert(cl, <<a.cluster>>), Tail(cs), commit_id)
        : with_vectors \in BOOLEAN }

\* how many clusters of the collection cl have each member_count and
\* importance
ClusterCounts(cl) ==
    LET pairs == {<<cl[id].payload.member_count, cl[id].payload.importance>> :
                     id \in DOMAIN cl}
    IN  [pr \in pairs |->
            Cardinality({id \in DOMAIN cl :
                <<cl[id].payload.member_count, cl[id].payload.importance>>
                    = pr})]

\* C26: a store_memory of the chunks c1..cn leaves as many clusters, with the
\* same member_count and importance, as n successive store_memory calls of
\* one chunk each may leave
C26_BatchAsSuccessiveStores ==
    \A p \in Procs :
        (StoreDone(p) /\ Succeeded(p)) =>
            ClusterCounts(clusters)
                \in {ClusterCounts(cl) :
                        cl \in SuccessiveStores(before[p].clusters,
                                                loc[p].params.chunks,
                                                loc[p].params.commit_id)}

\* C27: every cluster record has member_count >= 1 and importance
\* 1.0 + 0.5 * (member_count - 1), in halves 2 + (member_count - 1), also
\* while store_memory calls of several processes interleave
C27_ImportanceInLockstep ==
    \A id \in DOMAIN clusters :
        /\ clusters[id].payload.member_count >= 1
        /\ clusters[id].payload.importance
               = 2 + (clusters[id].payload.member_count - 1)

\* a cluster has reached member_count 3 while the store_memory calls of two
\* processes are both between two of their steps
C27_Witness ==
    /\ \E id \in DOMAIN clusters : clusters[id].payload.member_count >= 3
    /\ \A p \in Procs : loc[p].op = "store" /\ pc[p] \notin {"idle", "done"}

\* C28: after a store_memory that returned without error, no store_memory
\* having failed before, every cluster of the cluster collection is the
\* cluster_id of a chunk of the chunk collection
C28_EveryClusterHasAChunk ==
    \A p \in Procs :
        (StoreDone(p) /\ Succeeded(p) /\ ~storeError) =>
            \A id \in DOMAIN clusters :
                \E c \in DOMAIN chunks : chunks[c].payload.cluster_id = id

====
